---- MODULE Spec2Model ----
(***************************************************************************)
(* Model of the multi-stem playback engine of Cognify:                     *)
(*   - AudioPlayer (src/src/components/Library.tsx, lines 140-700): the    *)
(*     transport (play / pause / seek / restart / rate / loop), the        *)
(*     requestAnimationFrame polling cycle, the gain mixer and initAudio;  *)
(*   - audioCache (src/src/utils/AudioCache.ts): the decoded-buffer cache. *)
(*                                                                         *)
(* Units.  ctx.currentTime is counted in whole hardware units.  Song time  *)
(* is counted in quarters of a hardware unit, so that the five playback    *)
(* rates 0.5, 0.75, 1.0, 1.25, 1.5 are the integers 2, 3, 4, 5, 6 and      *)
(* anchorTime + elapsedCtx * rate stays an integer.                        *)
(*                                                                         *)
(* React state and the refs mirroring it (isLooping / isLoopingRef, ...)   *)
(* are one variable: the click handlers run as discrete events, whose      *)
(* re-render and effects are flushed before any other callback runs.       *)
(***************************************************************************)
EXTENDS Integers, Sequences, FiniteSets, TLC

\* ---------------------------------------------------------------- bounds
MaxNow == 4            \* the hardware clock is observed on 0..MaxNow
MaxOrphans == 1        \* polling cycles that lost their cancellation handle
MaxOps == 4            \* user commands issued on the controls
LiveOps == 2           \* user commands issued under fair scheduling
MaxCalls == 3          \* audioCache.get calls issued in the cache model
MaxClears == 1         \* audioCache.clear calls issued in the cache model
MaxReinit == 1         \* changes of the track set while the player is mounted
ReloadOps == 2         \* user commands issued around a change of the track set
ReloadNow == 2         \* the clock of each AudioContext is observed on 0..ReloadNow

\* ------------------------------------------------------ program constants
Q == 4                                  \* song-time quarters per hardware unit
speeds == <<2, 3, 4, 5, 6>>             \* [0.5, 0.75, 1.0, 1.25, 1.5] * Q
BufferDuration == 3 * Q                 \* audioBuffer.duration of the master
StemKeys == {"vocals"}                  \* keys of analysis.stems
Keys == {"master"} \cup StemKeys
Volumes == {0, 100}                     \* slider values, in hundredths
SeekTargets == {0, 2 * Q, 3 * Q}        \* progress * duration, in [0, duration]
Urls == {"u1", "u2"}
Callers == 1..MaxCalls

None == <<>>
Some(v) == <<v>>
Val(o) == o[1]

\* JavaScript's % : the remainder has the sign of the dividend
JsMod(a, b) == IF a >= 0 THEN a % b ELSE -((-a) % b)

VARIABLES
  \* ---- AudioPlayer
  now,            \* audioContextRef.current.currentTime
  loadPc,         \* initAudio: "loading" | "done" | "failed"
  loaded,         \* initAudio: keys loaded so far (let loaded)
  hasStems,       \* analysis?.stems of the props
  isLoading,
  buffers,        \* keys of buffersRef.current
  ctxGen,         \* which AudioContext audioContextRef.current is: 0, 1, ...
  regGen,         \* key -> context of the initAudio run that wrote
                  \*        buffersRef[key] and gainsRef[key]
  staleLoads,     \* initAudio runs of earlier track sets still in flight
  gains,          \* gainsRef.current: key -> None | Some(gain.value)
  masterGain,     \* masterGainRef.current.gain.value, in hundredths
  volume,
  stemMutes,
  isMasterMuted,
  duration,
  isPlaying,
  currentTime,
  pauseTime,      \* pauseTimeRef
  anchorTime,     \* anchorTimeRef
  anchorCtxTime,  \* anchorCtxTimeRef
  playbackRate,   \* playbackRate / playbackRateRef
  isLooping,
  loopStart,      \* None | Some(t)
  loopEnd,        \* None | Some(t)
  sources,        \* sourcesRef.current: key -> None | Some(source)
  liveSources,    \* key -> number of sources started and not yet stopped
  refPending,     \* the callback named by animationFrameRef is still pending
  orphans,        \* pending update callbacks animationFrameRef no longer names
  \* ---- observations of one step
  lastOp,         \* the handler that ran last
  emitted,        \* onTimeUpdate arguments emitted by the last handler
  tickEmitted,    \* those of them emitted by update()
  playEvents,     \* onPlayStateChange arguments emitted by the last handler
  linear,         \* offset of the last play/seek + sum of elapsed * rate
  linearOk,       \* no loop region was active since that play/seek
  ops,            \* user commands issued so far
  \* ---- audioCache
  cacheBuffers,   \* audioCache.buffers: url -> None | Some(buffer identity)
  calls,          \* caller -> state of its get() call
  fetches,        \* url -> number of fetch(url) issued
  decodes,        \* url -> number of decodeAudioData issued
  nextBuffer,     \* identity of the next decoded AudioBuffer
  clears          \* number of clear() calls

playerVars == <<now, loadPc, loaded, hasStems, isLoading, buffers, ctxGen,
                regGen, staleLoads, gains,
                masterGain, volume, stemMutes, isMasterMuted, duration,
                isPlaying, currentTime, pauseTime, anchorTime, anchorCtxTime,
                playbackRate, isLooping, loopStart, loopEnd, sources,
                liveSources, refPending, orphans, lastOp, emitted, tickEmitted, playEvents,
                linear, linearOk, ops>>
cacheVars == <<cacheBuffers, calls, fetches, decodes, nextBuffer, clears>>
vars == <<playerVars, cacheVars>>

\* The player's state as one record, so that a handler is a function of it.
S == [now |-> now, loadPc |-> loadPc, loaded |-> loaded, hasStems |-> hasStems,
      isLoading |-> isLoading, buffers |-> buffers, ctxGen |-> ctxGen,
      regGen |-> regGen, staleLoads |-> staleLoads, gains |-> gains,
      masterGain |-> masterGain, volume |-> volume, stemMutes |-> stemMutes,
      isMasterMuted |-> isMasterMuted, duration |-> duration,
      isPlaying |-> isPlaying, currentTime |-> currentTime,
      pauseTime |-> pauseTime, anchorTime |-> anchorTime,
      anchorCtxTime |-> anchorCtxTime, playbackRate |-> playbackRate,
      isLooping |-> isLooping, loopStart |-> loopStart, loopEnd |-> loopEnd,
      sources |-> sources, liveSources |-> liveSources,
      refPending |-> refPending, orphans |-> orphans,
      lastOp |-> lastOp, emitted |-> emitted, tickEmitted |-> tickEmitted,
      playEvents |-> playEvents,
      linear |-> linear, linearOk |-> linearOk, ops |-> ops]

Assign(s) ==
  /\ now' = s.now /\ loadPc' = s.loadPc /\ loaded' = s.loaded
  /\ hasStems' = s.hasStems /\ isLoading' = s.isLoading
  /\ buffers' = s.buffers /\ ctxGen' = s.ctxGen /\ regGen' = s.regGen
  /\ staleLoads' = s.staleLoads
  /\ gains' = s.gains /\ masterGain' = s.masterGain
  /\ volume' = s.volume /\ stemMutes' = s.stemMutes
  /\ isMasterMuted' = s.isMasterMuted /\ duration' = s.duration
  /\ isPlaying' = s.isPlaying /\ currentTime' = s.currentTime
  /\ pauseTime' = s.pauseTime /\ anchorTime' = s.anchorTime
  /\ anchorCtxTime' = s.anchorCtxTime /\ playbackRate' = s.playbackRate
  /\ isLooping' = s.isLooping /\ loopStart' = s.loopStart
  /\ loopEnd' = s.loopEnd /\ sources' = s.sources
  /\ liveSources' = s.liveSources
  /\ refPending' = s.refPending /\ orphans' = s.orphans
  /\ lastOp' = s.lastOp /\ emitted' = s.emitted
  /\ tickEmitted' = s.tickEmitted /\ playEvents' = s.playEvents
  /\ linear' = s.linear
  /\ linearOk' = s.linearOk /\ ops' = s.ops

\* the state a handler returns is computed once, then assigned
Set(s) == \E t \in {s} : Assign(t)

\* A handler starts with an empty observation.
Begin(s, op) ==
  [s EXCEPT !.lastOp = op, !.emitted = <<>>, !.tickEmitted = <<>>,
            !.playEvents = <<>>]

\* ------------------------------------------------------------ ClockModel
\* the loop region is set and the looping flag is on (update's test)
LoopSet(s) == s.isLooping /\ s.loopStart # None /\ s.loopEnd # None

\* getNormalizedTime with rawTime > end in place of rawTime >= end
getNormalizedTime_gt(s, rawTime) ==
  IF LoopSet(s) /\ Val(s.loopEnd) > Val(s.loopStart)
  THEN IF rawTime > Val(s.loopEnd)
       THEN Val(s.loopStart)
              + JsMod(rawTime - Val(s.loopStart), Val(s.loopEnd) - Val(s.loopStart))
       ELSE IF rawTime < Val(s.loopStart) THEN Val(s.loopStart) ELSE rawTime
  ELSE rawTime

getNormalizedTime(s, rawTime) ==
  IF LoopSet(s) /\ Val(s.loopEnd) > Val(s.loopStart)
  THEN IF rawTime >= Val(s.loopEnd)
       THEN Val(s.loopStart)
              + JsMod(rawTime - Val(s.loopStart), Val(s.loopEnd) - Val(s.loopStart))
       ELSE IF rawTime < Val(s.loopStart) THEN Val(s.loopStart) ELSE rawTime
  ELSE rawTime

\* RawTime that forgets the playback rate
RawTime_unitRate(s) == s.anchorTime + (s.now - s.anchorCtxTime) * Q

\* anchorTimeRef + elapsedCtx * playbackRateRef
RawTime(s) == s.anchorTime + (s.now - s.anchorCtxTime) * s.playbackRate

\* ------------------------------------------------------------- transport
StopAll(srcs) ==
  [k \in Keys |-> IF srcs[k] = None THEN None
                  ELSE Some([Val(srcs[k]) EXCEPT !.stopped = TRUE])]

\* source.stop() on the source sourcesRef holds for k, if it is still live
StopCount(s, k) ==
  IF /\ s.sources[k] # None /\ ~Val(s.sources[k]).stopped
     /\ Val(s.sources[k]).ctx = s.ctxGen
  THEN s.liveSources[k] - 1 ELSE s.liveSources[k]

pause(s) ==
  [s EXCEPT !.sources = StopAll(s.sources),
            !.liveSources = [k \in Keys |-> StopCount(s, k)],
            !.pauseTime = getNormalizedTime(s, RawTime(s)),
            !.refPending = FALSE,
            !.isPlaying = FALSE,
            !.playEvents = @ \o <<FALSE, FALSE>>]

\* requestAnimationFrame(update): the new handle replaces animationFrameRef
Schedule(s) ==
  [s EXCEPT !.orphans = IF s.refPending THEN @ + 1 ELSE @,
            !.refPending = TRUE]

Report(s, t) ==
  [s EXCEPT !.currentTime = t,
            !.emitted = Append(@, t),
            !.tickEmitted = Append(@, t)]

\* update with trackTime > duration in place of trackTime >= duration
update_gt(s) ==
  LET trackTime == RawTime(s) IN
  IF LoopSet(s)
  THEN Schedule(Report(s, getNormalizedTime(s, trackTime)))
  ELSE IF trackTime > s.duration
       THEN [pause(s) EXCEPT !.pauseTime = 0, !.currentTime = 0]
       ELSE Schedule(Report(s, trackTime))

update(s) ==
  LET trackTime == RawTime(s) IN
  IF LoopSet(s)
  THEN Schedule(Report(s, getNormalizedTime(s, trackTime)))
  ELSE IF trackTime >= s.duration
       THEN [pause(s) EXCEPT !.pauseTime = 0, !.currentTime = 0]
       ELSE Schedule(Report(s, trackTime))

NewSource(s, offset) ==
  [ctx |-> s.ctxGen, startedAt |-> s.now, offset |-> offset,
   playbackRate |-> s.playbackRate,
   loop |-> LoopSet(s),
   loopStart |-> IF LoopSet(s) THEN Val(s.loopStart) ELSE 0,
   loopEnd |-> IF LoopSet(s) THEN Val(s.loopEnd) ELSE 0,
   stopped |-> FALSE]

\* buffersRef[k] and gainsRef[k] were written by the initAudio run of another
\* AudioContext: source.connect(gainsRef.current[k]) throws
Foreign(s, k) == k \in s.buffers /\ s.regGen[k] # s.ctxGen

\* Object.entries(buffersRef.current): the keys in insertion order
KeyOrder == <<"master", "vocals">>
Pos(k) == CHOOSE i \in 1..Len(KeyOrder) : KeyOrder[i] = k

\* play() left by the exception of source.connect: the sources of the keys
\* before the foreign one are started, the old source of the foreign key is
\* stopped, and nothing after the forEach runs
playAborted(s, offset) ==
  LET bad == CHOOSE k \in s.buffers :
               /\ Foreign(s, k)
               /\ \A j \in s.buffers : Foreign(s, j) => Pos(k) <= Pos(j)
      early(k) == k \in s.buffers /\ Pos(k) < Pos(bad)
  IN [s EXCEPT
        !.sources = [k \in Keys |->
                       IF early(k) THEN Some(NewSource(s, offset))
                       ELSE IF k = bad /\ @[k] # None
                            THEN Some([Val(@[k]) EXCEPT !.stopped = TRUE])
                            ELSE @[k]],
        !.liveSources = [k \in Keys |->
                           IF early(k) THEN StopCount(s, k) + 1
                           ELSE IF k = bad THEN StopCount(s, k)
                                ELSE @[k]]]

\* play that always starts from the beginning
play_fromZero(s) ==
  IF s.isLoading THEN s
  ELSE
    LET startOffset == 0
        offset == IF startOffset >= s.duration THEN 0 ELSE startOffset
        s1 == [s EXCEPT
                 !.sources = [k \in Keys |->
                                IF k \in s.buffers THEN Some(NewSource(s, offset))
                                ELSE @[k]],
                 !.liveSources = [k \in Keys |->
                                    IF k \in s.buffers THEN StopCount(s, k) + 1
                                    ELSE @[k]],
                 !.anchorCtxTime = s.now,
                 !.anchorTime = startOffset,
                 !.isPlaying = TRUE,
                 !.playEvents = Append(@, TRUE),
                 !.linear = startOffset,
                 !.linearOk = ~LoopSet(s)]
    IN IF \E k \in s.buffers : Foreign(s, k) THEN playAborted(s, offset)
       ELSE update(s1)

\* play that does not stop the source it replaces
play_noStop(s) ==
  IF s.isLoading THEN s
  ELSE
    LET startOffset == getNormalizedTime(s, s.pauseTime)
        offset == IF startOffset >= s.duration THEN 0 ELSE startOffset
        s1 == [s EXCEPT
                 !.sources = [k \in Keys |->
                                IF k \in s.buffers THEN Some(NewSource(s, offset))
                                ELSE @[k]],
                 !.liveSources = [k \in Keys |->
                                    IF k \in s.buffers THEN s.liveSources[k] + 1
                                    ELSE @[k]],
                 !.anchorCtxTime = s.now,
                 !.anchorTime = startOffset,
                 !.isPlaying = TRUE,
                 !.playEvents = Append(@, TRUE),
                 !.linear = startOffset,
                 !.linearOk = ~LoopSet(s)]
    IN IF \E k \in s.buffers : Foreign(s, k) THEN playAborted(s, offset)
       ELSE update(s1)

play(s) ==
  IF s.isLoading THEN s
  ELSE
    LET startOffset == getNormalizedTime(s, s.pauseTime)
        offset == IF startOffset >= s.duration THEN 0 ELSE startOffset
        s1 == [s EXCEPT
                 !.sources = [k \in Keys |->
                                IF k \in s.buffers THEN Some(NewSource(s, offset))
                                ELSE @[k]],
                 !.liveSources = [k \in Keys |->
                                    IF k \in s.buffers THEN StopCount(s, k) + 1
                                    ELSE @[k]],
                 !.anchorCtxTime = s.now,
                 !.anchorTime = startOffset,
                 !.isPlaying = TRUE,
                 !.playEvents = Append(@, TRUE),
                 !.linear = startOffset,
                 !.linearOk = ~LoopSet(s)]
    IN IF \E k \in s.buffers : Foreign(s, k) THEN playAborted(s, offset)
       ELSE update(s1)

IndexOf(r) == CHOOSE i \in 1..Len(speeds) : speeds[i] = r

\* changeSpeed that does not re-anchor the clock
changeSpeed_noReanchor(s) ==
  LET newSpeed == speeds[(IndexOf(s.playbackRate) % Len(speeds)) + 1]
  IN [s EXCEPT
        !.playbackRate = newSpeed,
        !.sources = [k \in Keys |->
                       IF s.sources[k] = None THEN None
                       ELSE Some([Val(s.sources[k]) EXCEPT !.playbackRate = newSpeed])]]

\* changeSpeed that updates the rate of the master source only
changeSpeed_masterOnly(s) ==
  LET newSpeed == speeds[(IndexOf(s.playbackRate) % Len(speeds)) + 1]
      s1 == IF s.isPlaying
            THEN [s EXCEPT !.anchorTime = getNormalizedTime(s, RawTime(s)),
                           !.anchorCtxTime = s.now]
            ELSE s
  IN [s1 EXCEPT
        !.playbackRate = newSpeed,
        !.sources = [k \in Keys |->
                       IF s.sources[k] = None \/ k # "master" THEN s.sources[k]
                       ELSE Some([Val(s.sources[k]) EXCEPT !.playbackRate = newSpeed])]]

changeSpeed(s) ==
  LET newSpeed == speeds[(IndexOf(s.playbackRate) % Len(speeds)) + 1]
      s1 == IF s.isPlaying
            THEN [s EXCEPT !.anchorTime = getNormalizedTime(s, RawTime(s)),
                           !.anchorCtxTime = s.now]
            ELSE s
  IN [s1 EXCEPT
        !.playbackRate = newSpeed,
        !.sources = [k \in Keys |->
                       IF s.sources[k] = None THEN None
                       ELSE Some([Val(s.sources[k]) EXCEPT !.playbackRate = newSpeed])]]

\* the effect on [isLooping, loopStart, loopEnd]
LoopEffect(s) ==
  [s EXCEPT
     !.sources = [k \in Keys |->
                    IF s.sources[k] = None THEN None
                    ELSE IF LoopSet(s)
                         THEN Some([Val(s.sources[k]) EXCEPT
                                      !.loop = TRUE,
                                      !.loopStart = Val(s.loopStart),
                                      !.loopEnd = Val(s.loopEnd)])
                         ELSE Some([Val(s.sources[k]) EXCEPT !.loop = FALSE])],
     !.linearOk = @ /\ ~LoopSet(s)]

\* toggleLoop that keeps the loop points when it turns looping off
toggleLoop_keepRegion(s) ==
  IF s.isLooping
  THEN LoopEffect([s EXCEPT !.isLooping = FALSE])
  ELSE LoopEffect([s EXCEPT !.isLooping = TRUE])

toggleLoop(s) ==
  IF s.isLooping
  THEN LoopEffect([s EXCEPT !.isLooping = FALSE, !.loopStart = None, !.loopEnd = None])
  ELSE LoopEffect([s EXCEPT !.isLooping = TRUE])

setLoopPointA(s) ==
  LoopEffect([s EXCEPT !.loopStart = Some(s.currentTime), !.isLooping = TRUE])

setLoopPointB(s) ==
  IF s.loopStart # None /\ s.currentTime > Val(s.loopStart)
  THEN LoopEffect([s EXCEPT !.loopEnd = Some(s.currentTime), !.isLooping = TRUE])
  ELSE s

\* handleSeek that forgets to store the target in pauseTimeRef
handleSeek_keepPauseTime(s, newTime) ==
  IF s.isLoading THEN s
  ELSE
    LET s1 == [s EXCEPT !.anchorTime = newTime,
                        !.anchorCtxTime = s.now,
                        !.currentTime = newTime,
                        !.emitted = Append(@, newTime),
                        !.linear = newTime,
                        !.linearOk = ~LoopSet(s)]
    IN IF s.isPlaying THEN play(s1) ELSE s1

handleSeek(s, newTime) ==
  IF s.isLoading THEN s
  ELSE
    LET s1 == [s EXCEPT !.pauseTime = newTime,
                        !.anchorTime = newTime,
                        !.anchorCtxTime = s.now,
                        !.currentTime = newTime,
                        !.emitted = Append(@, newTime),
                        !.linear = newTime,
                        !.linearOk = ~LoopSet(s)]
    IN IF s.isPlaying THEN play(s1) ELSE s1

restart(s) ==
  LET s1 == [s EXCEPT !.pauseTime = 0, !.currentTime = 0]
  IN IF s.isPlaying THEN play(s1) ELSE s1

togglePlay(s) == IF s.isPlaying THEN pause(s) ELSE play(s)

\* ----------------------------------------------------------------- mixer
MuteEffect(s) ==
  [s EXCEPT
     !.gains = [k \in Keys |->
                  IF s.gains[k] = None THEN None
                  ELSE IF k = "master"
                       THEN Some(IF s.isMasterMuted THEN 0 ELSE 1)
                       ELSE Some(IF s.stemMutes[k] THEN 0 ELSE 1)]]

toggleMasterMute(s) == MuteEffect([s EXCEPT !.isMasterMuted = ~@])

toggleStemMute(s, k) == MuteEffect([s EXCEPT !.stemMutes[k] = ~@])

setVolume(s, v) == [s EXCEPT !.volume = v, !.masterGain = v]

\* ------------------------------------------------------------- initAudio
\* Object.entries(urlsToLoad): master first, then the stems
LoadOrder(s) == IF s.hasStems THEN <<"master", "vocals">> ELSE <<"master">>

loadStep(s) ==
  LET key == LoadOrder(s)[s.loaded + 1]
      last == s.loaded + 1 = Len(LoadOrder(s))
  IN [s EXCEPT !.buffers = @ \cup {key},
               !.regGen[key] = s.ctxGen,
               !.gains[key] = Some(1),
               !.duration = IF key = "master" THEN BufferDuration ELSE @,
               !.loaded = @ + 1,
               !.loadPc = IF last THEN "done" ELSE @,
               !.isLoading = IF last THEN FALSE ELSE @]

loadFail(s) == [s EXCEPT !.loadPc = "failed", !.isLoading = FALSE]

\* [audioUrl, analysis] change while the player is mounted: the cleanup of
\* the effect, then initAudio for the new track set up to its first await
reinit(s, stems) ==
  LET s1 == [s EXCEPT
               !.refPending = FALSE,
               !.liveSources = [k \in Keys |-> 0],
               !.staleLoads = IF s.loadPc = "loading"
                              THEN @ \cup {[ctx |-> s.ctxGen, hasStems |-> s.hasStems,
                                            loaded |-> s.loaded]}
                              ELSE @,
               !.isLoading = TRUE,
               !.ctxGen = @ + 1,
               !.now = 0,
               !.masterGain = 100,
               !.hasStems = stems,
               !.isMasterMuted = IF stems THEN TRUE ELSE @,
               !.loaded = 0,
               !.loadPc = "loading"]
  IN IF s1.isMasterMuted # s.isMasterMuted THEN MuteEffect(s1) ELSE s1

\* the initAudio run l of an earlier track set goes on after its await
staleLoadStep(s, l) ==
  LET order == IF l.hasStems THEN <<"master", "vocals">> ELSE <<"master">>
      key == order[l.loaded + 1]
      last == l.loaded + 1 = Len(order)
  IN [s EXCEPT !.buffers = @ \cup {key},
               !.regGen[key] = l.ctx,
               !.gains[key] = Some(1),
               !.duration = IF key = "master" THEN BufferDuration ELSE @,
               !.staleLoads = IF last THEN @ \ {l}
                              ELSE (@ \ {l}) \cup {[l EXCEPT !.loaded = @ + 1]},
               !.isLoading = IF last THEN FALSE ELSE @]

staleLoadFail(s, l) == [s EXCEPT !.staleLoads = @ \ {l}, !.isLoading = FALSE]

\* =============================================================== actions
Init ==
  /\ now = 0 /\ loadPc = "loading" /\ loaded = 0
  /\ hasStems \in BOOLEAN
  /\ isLoading = TRUE
  /\ buffers = {} /\ gains = [k \in Keys |-> None]
  /\ ctxGen = 0 /\ regGen = [k \in Keys |-> 0] /\ staleLoads = {}
  /\ masterGain = 100 /\ volume = 100
  /\ stemMutes = [k \in StemKeys |-> FALSE]
  /\ isMasterMuted = hasStems
  /\ duration = 0
  /\ isPlaying = FALSE /\ currentTime = 0 /\ pauseTime = 0
  /\ anchorTime = 0 /\ anchorCtxTime = 0 /\ playbackRate = 4
  /\ isLooping = FALSE /\ loopStart = None /\ loopEnd = None
  /\ sources = [k \in Keys |-> None]
  /\ liveSources = [k \in Keys |-> 0]
  /\ refPending = FALSE /\ orphans = 0
  /\ lastOp = "init" /\ emitted = <<>> /\ tickEmitted = <<>>
  /\ playEvents = <<>>
  /\ linear = 0 /\ linearOk = TRUE /\ ops = 0
  /\ cacheBuffers = [u \in Urls |-> None]
  /\ calls = [c \in Callers |-> [pc |-> "idle", url |-> "u1", result |-> None,
                                  fetched |-> FALSE, joined |-> {}]]
  /\ fetches = [u \in Urls |-> 0] /\ decodes = [u \in Urls |-> 0]
  /\ nextBuffer = 1 /\ clears = 0

\* the controls are rendered only when !isLoading; the user issues at most
\* MaxOps commands
Ready == ~isLoading /\ ops < MaxOps

\* a user command: a handler run from a control
User(s, op) == [Begin(s, op) EXCEPT !.ops = @ + 1]

\* a handler that calls play() while playing adds a polling cycle
Room(s) == s.orphans <= MaxOrphans

Advance ==
  /\ now < MaxNow
  /\ Set([Begin(S, "advance") EXCEPT !.now = @ + 1,
                                     !.linear = @ + S.playbackRate])
  /\ UNCHANGED cacheVars

LoadStep ==
  /\ loadPc = "loading"
  /\ Set(loadStep(Begin(S, "loadStep")))
  /\ UNCHANGED cacheVars

LoadFail ==
  /\ loadPc = "loading"
  /\ Set(loadFail(Begin(S, "loadFail")))
  /\ UNCHANGED cacheVars

TogglePlay ==
  /\ Ready
  /\ Set(togglePlay(User(S, IF isPlaying THEN "pause"
                             ELSE IF lastOp = "pause" THEN "resume" ELSE "play")))
  /\ UNCHANGED cacheVars

Restart ==
  /\ Ready
  /\ Room(restart(S))
  /\ Set(restart(User(S, "restart")))
  /\ UNCHANGED cacheVars

Seek ==
  /\ Ready
  /\ \E p \in SeekTargets :
       /\ p <= duration
       /\ Room(handleSeek(S, p))
       /\ Set(handleSeek(User(S, "seek"), p))
  /\ UNCHANGED cacheVars

ChangeSpeed ==
  /\ Ready
  /\ Set(changeSpeed(User(S, "changeSpeed")))
  /\ UNCHANGED cacheVars

ToggleLoop ==
  /\ Ready
  /\ Set(toggleLoop(User(S, "toggleLoop")))
  /\ UNCHANGED cacheVars

SetLoopPointA ==
  /\ Ready
  /\ Set(setLoopPointA(User(S, "setLoopPointA")))
  /\ UNCHANGED cacheVars

SetLoopPointB ==
  /\ Ready
  /\ Set(setLoopPointB(User(S, "setLoopPointB")))
  /\ UNCHANGED cacheVars

ToggleMasterMute ==
  /\ Ready /\ hasStems
  /\ Set(toggleMasterMute(User(S, "muteMaster")))
  /\ UNCHANGED cacheVars

ToggleStemMute ==
  /\ Ready /\ hasStems
  /\ \E k \in StemKeys : Set(toggleStemMute(User(S, "muteStem"), k))
  /\ UNCHANGED cacheVars

SetVolume ==
  /\ Ready
  /\ \E v \in Volumes : v # volume /\ Set(setVolume(User(S, "setVolume"), v))
  /\ UNCHANGED cacheVars

\* the callback animationFrameRef names fires
TickRef ==
  /\ refPending
  /\ Set(update([Begin(S, "tick") EXCEPT !.refPending = FALSE]))
  /\ UNCHANGED cacheVars

\* a callback of a polling cycle whose handle was overwritten fires
TickOrphan ==
  /\ orphans > 0
  /\ Set(update([Begin(S, "tick") EXCEPT !.orphans = @ - 1]))
  /\ UNCHANGED cacheVars

\* the parent re-renders AudioPlayer with another audioUrl / analysis
Reinit ==
  /\ ctxGen < MaxReinit
  /\ \E stems \in BOOLEAN : Set(reinit(Begin(S, "reinit"), stems))
  /\ UNCHANGED cacheVars

StaleLoadStep ==
  /\ \E l \in staleLoads : Set(staleLoadStep(Begin(S, "staleLoadStep"), l))
  /\ UNCHANGED cacheVars

StaleLoadFail ==
  /\ \E l \in staleLoads : Set(staleLoadFail(Begin(S, "staleLoadFail"), l))
  /\ UNCHANGED cacheVars

Next ==
  \/ Advance \/ LoadStep \/ LoadFail
  \/ TogglePlay \/ Restart \/ Seek \/ ChangeSpeed
  \/ ToggleLoop \/ SetLoopPointA \/ SetLoopPointB
  \/ TickRef \/ TickOrphan

Spec == Init /\ [][Next]_vars

\* the mixer next to a transport that is played, paused and polled
NextMix ==
  \/ Advance \/ LoadStep \/ LoadFail
  \/ TogglePlay \/ TickRef
  \/ ToggleMasterMute \/ ToggleStemMute \/ SetVolume

SpecMix == Init /\ [][NextMix]_vars

\* the track set changes under a transport that is played, paused and polled
NextReload ==
  \/ (now < ReloadNow /\ Advance) \/ LoadStep \/ LoadFail
  \/ Reinit \/ StaleLoadStep \/ StaleLoadFail
  \/ (ops < ReloadOps /\ TogglePlay) \/ TickRef

SpecReload == Init /\ [][NextReload]_vars

\* ============================================================ audioCache
\* async get(url): runs to its first await; a hit returns the stored buffer
\* (calls are numbered in the order they are issued)
GetCall(c, u) ==
  /\ calls[c].pc = "idle"
  /\ \A d \in Callers : d < c => calls[d].pc # "idle"
  /\ LET inFlight == {d \in Callers : /\ calls[d].pc \in {"fetch", "body", "decode"}
                                      /\ calls[d].url = u}
     IN IF cacheBuffers[u] # None
        THEN /\ calls' = [calls EXCEPT ![c] = [pc |-> "resolved", url |-> u,
                                               result |-> cacheBuffers[u],
                                               fetched |-> FALSE, joined |-> {}]]
             /\ UNCHANGED fetches
        ELSE /\ calls' = [calls EXCEPT ![c] = [pc |-> "fetch", url |-> u,
                                               result |-> None,
                                               fetched |-> TRUE, joined |-> inFlight]]
             /\ fetches' = [fetches EXCEPT ![u] = @ + 1]
  /\ UNCHANGED <<cacheBuffers, decodes, nextBuffer, clears>>

\* await fetch(url) resolves; response.arrayBuffer() is awaited
FetchResolve(c) ==
  /\ calls[c].pc = "fetch"
  /\ calls' = [calls EXCEPT ![c].pc = "body"]
  /\ UNCHANGED <<cacheBuffers, fetches, decodes, nextBuffer, clears>>

\* await response.arrayBuffer() resolves; context.decodeAudioData is called
BodyResolve(c) ==
  /\ calls[c].pc = "body"
  /\ calls' = [calls EXCEPT ![c].pc = "decode"]
  /\ decodes' = [decodes EXCEPT ![calls[c].url] = @ + 1]
  /\ UNCHANGED <<cacheBuffers, fetches, nextBuffer, clears>>

\* decodeAudioData resolves with a new AudioBuffer; it is stored and returned
DecodeResolve(c) ==
  /\ calls[c].pc = "decode"
  /\ cacheBuffers' = [cacheBuffers EXCEPT ![calls[c].url] = Some(nextBuffer)]
  /\ calls' = [calls EXCEPT ![c].pc = "resolved", ![c].result = Some(nextBuffer)]
  /\ nextBuffer' = nextBuffer + 1
  /\ UNCHANGED <<fetches, decodes, clears>>

\* a rejecting get() that leaves an entry for its url in the cache
GetReject_storesEntry(c) ==
  /\ calls[c].pc \in {"fetch", "body", "decode"}
  /\ calls' = [calls EXCEPT ![c].pc = "rejected"]
  /\ cacheBuffers' = [cacheBuffers EXCEPT ![calls[c].url] = Some(0)]
  /\ UNCHANGED <<fetches, decodes, nextBuffer, clears>>

\* fetch, arrayBuffer or decodeAudioData rejects: get() rejects
GetReject(c) ==
  /\ calls[c].pc \in {"fetch", "body", "decode"}
  /\ calls' = [calls EXCEPT ![c].pc = "rejected"]
  /\ UNCHANGED <<cacheBuffers, fetches, decodes, nextBuffer, clears>>

has(u) == cacheBuffers[u] # None

clear ==
  /\ clears < MaxClears
  /\ cacheBuffers' = [u \in Urls |-> None]
  /\ clears' = clears + 1
  /\ UNCHANGED <<calls, fetches, decodes, nextBuffer>>

CacheGet == \E c \in Callers, u \in Urls : GetCall(c, u) /\ UNCHANGED playerVars
CacheFetchResolve == \E c \in Callers : FetchResolve(c) /\ UNCHANGED playerVars
CacheBodyResolve == \E c \in Callers : BodyResolve(c) /\ UNCHANGED playerVars
CacheDecodeResolve == \E c \in Callers : DecodeResolve(c) /\ UNCHANGED playerVars
CacheReject == \E c \in Callers : GetReject(c) /\ UNCHANGED playerVars
CacheClear == clear /\ UNCHANGED playerVars

NextCache ==
  \/ CacheGet \/ CacheFetchResolve \/ CacheBodyResolve
  \/ CacheDecodeResolve \/ CacheReject \/ CacheClear

SpecCache == Init /\ [][NextCache]_vars

TypeOK ==
  /\ now \in 0..MaxNow
  /\ isPlaying \in BOOLEAN
  /\ orphans \in 0..MaxOrphans
  /\ ops \in 0..MaxOps
  /\ isPlaying => refPending

\* ------------------------------------------------------- fair scheduling
\* requestAnimationFrame callbacks fire and the audio clock advances
UserLive ==
  \/ TogglePlay \/ Restart \/ Seek \/ ChangeSpeed
  \/ ToggleLoop \/ SetLoopPointA \/ SetLoopPointB

NextLive ==
  \/ Advance \/ LoadStep \/ LoadFail
  \/ (ops < LiveOps /\ UserLive)
  \/ TickRef \/ TickOrphan

SpecLive ==
  /\ Init /\ [][NextLive]_vars
  /\ WF_vars(Advance) /\ WF_vars(TickRef) /\ WF_vars(TickOrphan)

\* ================================================================ claims
\* a source of the current AudioContext that was started and not stopped
Live(k) ==
  /\ sources[k] # None /\ ~Val(sources[k]).stopped
  /\ Val(sources[k]).ctx = ctxGen

\* the song time of the transport: computed from the anchor while playing,
\* stored in pauseTime otherwise
SongTime == IF isPlaying THEN getNormalizedTime(S, RawTime(S)) ELSE pauseTime

transportVars == <<isPlaying, pauseTime, anchorTime, anchorCtxTime, playbackRate,
                   isLooping, loopStart, loopEnd, sources, refPending, orphans,
                   duration, buffers, now>>

\* C1: a get(url) issued while another get of the same url is still in
\* flight issues no fetch of its own, and both resolve to the same buffer.
C1_CacheDedup ==
  \A c \in Callers :
    calls[c].joined # {} =>
      /\ ~calls[c].fetched
      /\ \A d \in calls[c].joined :
           (calls[c].pc = "resolved" /\ calls[d].pc = "resolved")
             => calls[c].result = calls[d].result

\* C2: a rate change leaves the song time where it was: the song time
\* derived right after changeSpeed equals the one derived right before it,
\* at the same hardware time, playing or not, looping or not.
C2_RateContinuity == [][ChangeSpeed => SongTime' = SongTime]_vars

C2_Witness ==
  /\ lastOp = "changeSpeed" /\ isPlaying
  /\ LoopSet(S) /\ Val(loopEnd) > Val(loopStart)
  /\ anchorCtxTime = now /\ now > 0 /\ anchorTime > 0

\* C3: while playing, with no loop region active since the last play or
\* seek, the time update() reports is the offset of that play or seek plus
\* the sum over the constant-rate segments of elapsed hardware time * rate.
C3_ClockAdvance ==
  (isPlaying /\ linearOk /\ tickEmitted # <<>>)
    => tickEmitted[Len(tickEmitted)] = linear

\* one hardware unit at 1.0 then one at 1.25, from offset 0: 2.25 units
C3_Witness ==
  /\ lastOp = "tick" /\ isPlaying /\ linearOk
  /\ playbackRate = 5 /\ now = 2
  /\ tickEmitted = <<4 + 5>>

\* play() resumed at song time T: every loaded track has a source started
\* now at offset T, the anchor is T and update() reported T
ResumesAt(T) ==
  /\ anchorTime' = T /\ anchorCtxTime' = now
  /\ \A k \in buffers : /\ sources'[k] # None
                        /\ Val(sources'[k]).offset = T
                        /\ Val(sources'[k]).startedAt = now
                        /\ ~Val(sources'[k]).stopped
  /\ tickEmitted' = <<T>>

\* C4 as stated: a play() right after a pause() that stored pauseTime = T
\* resumes at T, for every T.
C4_ResumeAnyT == [][(TogglePlay /\ lastOp = "pause") => ResumesAt(pauseTime)]_vars

\* C4 amended: a play() right after a pause() that stored pauseTime = T
\* resumes at T, for every T with 0 <= T < duration.
C4_ResumeBelowDuration ==
  [][(TogglePlay /\ lastOp = "pause" /\ pauseTime >= 0 /\ pauseTime < duration)
       => ResumesAt(pauseTime)]_vars

C4_Witness ==
  /\ lastOp = "resume" /\ isPlaying
  /\ anchorTime > 0 /\ pauseTime = anchorTime
  /\ tickEmitted = <<anchorTime>>
  /\ \A k \in Keys : Live(k) /\ Val(sources[k]).offset = anchorTime

\* C5: the live sources are indistinguishable: started at the same hardware
\* instant with the same offset, carrying the same playback rate (the
\* current one) and the same loop parameters; while playing every loaded
\* track has one.
C5_PhaseLock ==
  /\ \A k1, k2 \in Keys : (Live(k1) /\ Live(k2)) => sources[k1] = sources[k2]
  /\ \A k \in Keys : Live(k) => Val(sources[k]).playbackRate = playbackRate
  /\ isPlaying => \A k \in buffers : Live(k)

C5_Witness ==
  /\ lastOp = "changeSpeed" /\ isPlaying /\ hasStems
  /\ \A k \in Keys : Live(k) /\ Val(sources[k]).offset > 0
  /\ Val(sources["master"]).startedAt < now

\* C6: with a region start < end set and looping on, getNormalizedTime(raw)
\* is start + ((raw - start) mod (end - start)) for raw >= end, start for
\* raw < start and raw otherwise; the result lies in [start, end) and is a
\* fixed point.  Otherwise getNormalizedTime is the identity.
RawTimes == (0 - Q)..(MaxNow * speeds[Len(speeds)] + BufferDuration)

Region(a, b) == [isLooping |-> TRUE, loopStart |-> Some(a), loopEnd |-> Some(b)]

\* the refs getNormalizedTime reads
LoopRefs == [isLooping |-> isLooping, loopStart |-> loopStart, loopEnd |-> loopEnd]

C6_LoopNormalization ==
  /\ getNormalizedTime(Region(10, 20), 25) = 15
  /\ getNormalizedTime(Region(10, 20), 5) = 10
  /\ IF isLooping /\ loopStart # None /\ loopEnd # None /\ Val(loopEnd) > Val(loopStart)
     THEN LET a == Val(loopStart)
              b == Val(loopEnd)
          IN \A raw \in RawTimes :
               /\ getNormalizedTime(LoopRefs, raw) =
                    IF raw >= b THEN a + ((raw - a) % (b - a))
                    ELSE IF raw < a THEN a ELSE raw
               /\ getNormalizedTime(LoopRefs, raw) \in a..(b - 1)
               /\ getNormalizedTime(LoopRefs, getNormalizedTime(LoopRefs, raw))
                    = getNormalizedTime(LoopRefs, raw)
     ELSE \A raw \in RawTimes : getNormalizedTime(LoopRefs, raw) = raw

C6_Witness ==
  /\ lastOp = "tick" /\ isPlaying
  /\ LoopSet(S) /\ Val(loopEnd) > Val(loopStart)
  /\ RawTime(S) >= Val(loopEnd)
  /\ tickEmitted = <<getNormalizedTime(S, RawTime(S))>>

\* C7: while playing with looping on and both loop points set, every time
\* update() reports lies in [loopStart, loopEnd].
C7_LoopWrap ==
  (isPlaying /\ LoopSet(S))
    => \A i \in 1..Len(tickEmitted) :
         tickEmitted[i] >= Val(loopStart) /\ tickEmitted[i] <= Val(loopEnd)

\* C8: a tick of a playing transport with no loop region set stops the
\* transport with pauseTime = 0 exactly when its song time is >= duration;
\* and once the user has issued the last command, a playing transport with
\* no loop region whose end lies within the observed clock is eventually
\* stopped with pauseTime = 0.
EndInReach == anchorTime + (MaxNow - anchorCtxTime) * playbackRate >= duration

C8_EndOfTrack ==
  /\ [][((TickRef \/ TickOrphan) /\ isPlaying /\ ~LoopSet(S))
          => IF RawTime(S) >= duration
             THEN ~isPlaying' /\ pauseTime' = 0
             ELSE isPlaying' /\ pauseTime' = pauseTime]_vars
  /\ (isPlaying /\ ~LoopSet(S) /\ EndInReach /\ ops >= LiveOps)
       ~> (~isPlaying /\ pauseTime = 0)

C8_Witness ==
  /\ lastOp = "tick" /\ ~isPlaying /\ pauseTime = 0 /\ currentTime = 0
  /\ duration > 0 /\ RawTime(S) >= duration
  /\ \A k \in buffers : sources[k] # None /\ Val(sources[k]).stopped

\* C9 as stated: seek(t) sets pauseTime = t, replaces the anchor with
\* (now, t, current rate) and reports t, in any transport state.
C9_SeekAnchorsAtTarget ==
  [][Seek => \E t \in SeekTargets :
               /\ pauseTime' = t /\ Head(emitted') = t
               /\ anchorTime' = t /\ anchorCtxTime' = now
               /\ playbackRate' = playbackRate]_vars

\* C9 amended: seek(t) with 0 <= t < duration sets pauseTime = t and reports
\* t; the anchor becomes (now, t, current rate) when not playing and (now,
\* getNormalizedTime(t), current rate) when playing, because the replay
\* re-anchors at its offset.
C9_SeekAnchorsAtOffset ==
  [][(lastOp' = "seek" /\ Seek) => \E t \in SeekTargets :
               /\ Head(emitted') = t
               /\ t < duration =>
                    /\ pauseTime' = t
                    /\ anchorTime' = IF isPlaying THEN getNormalizedTime(S, t) ELSE t
                    /\ anchorCtxTime' = now
                    /\ playbackRate' = playbackRate]_vars

C9_Witness ==
  /\ lastOp = "seek" /\ isPlaying
  /\ LoopSet(S) /\ Val(loopEnd) > Val(loopStart)
  /\ pauseTime >= Val(loopEnd)
  /\ anchorTime = getNormalizedTime(S, pauseTime) /\ anchorTime # pauseTime
  /\ emitted = <<pauseTime, anchorTime>>

\* C10: a mute toggle of track A sets A's gain to 0 (muted) or 1 (unmuted)
\* and changes no other gain, nor the output gain, nor the transport, nor
\* the sources; setVolume changes the output gain only.
GainOf(muted) == Some(IF muted THEN 0 ELSE 1)

C10_MuteIsolation ==
  [][/\ ToggleStemMute =>
          \E k \in StemKeys :
            /\ stemMutes'[k] # stemMutes[k]
            /\ gains'[k] = GainOf(stemMutes'[k])
            /\ \A j \in Keys \ {k} : gains'[j] = gains[j]
            /\ masterGain' = masterGain
            /\ UNCHANGED transportVars
     /\ ToggleMasterMute =>
          /\ gains'["master"] = GainOf(isMasterMuted')
          /\ \A j \in StemKeys : gains'[j] = gains[j]
          /\ masterGain' = masterGain
          /\ UNCHANGED transportVars
     /\ SetVolume =>
          /\ masterGain' = volume'
          /\ gains' = gains
          /\ UNCHANGED transportVars]_vars

\* what play() would do in the current state, compared with that state
PlayIsNoOp ==
  LET t == play(Begin(S, "play"))
  IN /\ t.sources = sources /\ t.isPlaying = isPlaying
     /\ t.anchorTime = anchorTime /\ t.anchorCtxTime = anchorCtxTime
     /\ t.pauseTime = pauseTime /\ t.currentTime = currentTime
     /\ t.refPending = refPending /\ t.orphans = orphans
     /\ t.emitted = <<>> /\ t.playEvents = <<>>

\* C11: whenever the buffers of the track set are not all loaded (the load
\* is in progress or has failed), play() creates no source, leaves the
\* playing flag and the anchor alone, schedules no polling callback and
\* emits neither onPlayStateChange nor onTimeUpdate.
C11_PlayNoOpUnlessLoaded == loadPc # "done" => PlayIsNoOp

\* what pause() would do in the current state, compared with that state
PauseIsNoOp ==
  LET t == pause(Begin(S, "pause"))
  IN /\ t.pauseTime = pauseTime
     /\ t.anchorTime = anchorTime /\ t.anchorCtxTime = anchorCtxTime
     /\ t.isPlaying = isPlaying /\ t.sources = sources
     /\ t.currentTime = currentTime

\* C12: in a state that is not playing, pause() leaves pauseTime, the
\* anchor and the transport state as they are, at whatever hardware time
\* it is called.
C12_PauseIdempotent == (~isLoading /\ ~isPlaying) => PauseIsNoOp

\* C13: while the transport is not playing no polling callback is pending,
\* neither the one animationFrameRef names nor an older one, and no tick
\* run in that state reports a time.
C13_TickCancelled ==
  /\ ~isPlaying => (~refPending /\ orphans = 0)
  /\ (lastOp = "tick" /\ ~isPlaying) => tickEmitted = <<>>

\* C14: whenever looping is on and both loop points are set, loopEnd >
\* loopStart; a press of A or B that would store a region with loopEnd <=
\* loopStart changes neither the region, nor the looping flag, nor the
\* transport.
C14_LoopRegionValid ==
  /\ [](LoopSet(S) => Val(loopEnd) > Val(loopStart))
  /\ [][/\ (SetLoopPointA /\ loopEnd # None /\ currentTime >= Val(loopEnd))
             => UNCHANGED transportVars
        /\ (SetLoopPointB /\ loopStart # None /\ currentTime <= Val(loopStart))
             => UNCHANGED transportVars]_vars

\* C15: onTimeUpdate is emitted exactly once by each polling tick of a
\* playing transport, exactly once by each seek and exactly once by each
\* pause; a tick of a transport that is not playing emits nothing, and what
\* the other commands emit is the one report of the update() they start.
C15_TimeUpdateOnce ==
  [][/\ (TickRef \/ TickOrphan) => Len(emitted') = IF isPlaying THEN 1 ELSE 0
     /\ Seek => Len(emitted') = 1
     /\ (TogglePlay /\ isPlaying) => Len(emitted') = 1
     /\ ((TogglePlay /\ ~isPlaying) \/ Restart \/ ChangeSpeed \/ ToggleLoop
           \/ SetLoopPointA \/ SetLoopPointB)
          => (emitted' = tickEmitted' /\ Len(emitted') <= 1)]_vars

\* C16: after a failed load no buffer of the set is in the registry, and no
\* source was started by a play() since.
C16_LoadAllOrNothing ==
  loadPc = "failed" => (buffers = {} /\ \A k \in Keys : sources[k] = None)

\* C17: once a buffer is stored for url, has(url) holds and the stored
\* buffer is never replaced by any event other than clear(); a get(url)
\* issued then returns the stored buffer without a fetch or a decode.
C17_CacheMemoization ==
  [][\A u \in Urls :
       has(u) =>
         /\ (clears' = clears => cacheBuffers'[u] = cacheBuffers[u])
         /\ \A c \in Callers :
              GetCall(c, u) => /\ calls'[c].pc = "resolved"
                               /\ calls'[c].result = cacheBuffers[u]
                               /\ fetches' = fetches /\ decodes' = decodes]_vars

\* C18: a get(url) whose fetch, body read or decode fails rejects and
\* changes nothing in the cache; it has issued one fetch and at most one
\* decode (no retry); while every get that went to the network for url has
\* rejected, has(url) is false.
C18_CacheFailure ==
  /\ [][\A c \in Callers :
          GetReject(c) => /\ calls'[c].pc = "rejected"
                          /\ UNCHANGED <<cacheBuffers, fetches, decodes>>]_vars
  /\ [](\A u \in Urls :
          /\ fetches[u] = Cardinality({c \in Callers : calls[c].fetched
                                                        /\ calls[c].url = u})
          /\ decodes[u] <= fetches[u]
          /\ (\A c \in Callers : (calls[c].fetched /\ calls[c].url = u)
                                   => calls[c].pc = "rejected")
               => ~has(u))

\* a get("u1") rejected by decodeAudioData, after one fetch and one decode
C18_Witness ==
  \E c \in Callers :
    /\ calls[c].pc = "rejected" /\ calls[c].url = "u1"
    /\ fetches["u1"] = 1 /\ decodes["u1"] = 1
    /\ ~has("u1")

\* C19: right after an operation that alters the perceived time or the way
\* it is derived, the song time derived from the stored anchor is the
\* position the operation established: the song time perceived just before
\* a rate change, a pause, a loop-point press, a loop toggle or a tick, the
\* (normalized) target of a seek, the (normalized) pauseTime of a play.
C19_AnchorNeverStale ==
  [][/\ (ChangeSpeed \/ ToggleLoop \/ SetLoopPointA \/ SetLoopPointB
           \/ (TogglePlay /\ isPlaying))
          => SongTime' = SongTime
     /\ ((TickRef \/ TickOrphan) /\ isPlaying /\ isPlaying')
          => SongTime' = SongTime
     /\ Seek => \E t \in SeekTargets :
                  /\ pauseTime' = t
                  /\ SongTime' = IF isPlaying THEN getNormalizedTime(S, t) ELSE t
     /\ (TogglePlay /\ ~isPlaying /\ isPlaying')
          => SongTime' = getNormalizedTime(S, pauseTime)]_vars

\* C20: a handler that ran play() leaves the anchor's song time equal to
\* the offset at which it started the source of every loaded track (0 when
\* the normalized pauseTime is >= duration).
C20_AnchorIsStartOffset ==
  [][((TogglePlay /\ ~isPlaying) \/ ((Seek \/ Restart) /\ isPlaying))
       => \A k \in buffers : /\ sources'[k] # None
                             /\ Val(sources'[k]).startedAt = now
                             /\ Val(sources'[k]).offset = anchorTime']_vars

\* C21: every track has at most one source that was started and not
\* stopped, and that one is the source sourcesRef holds for the track.
C21_OneLiveSource ==
  \A k \in Keys : /\ liveSources[k] <= 1
                  /\ liveSources[k] = 1 <=> Live(k)

\* a seek while playing has replaced the sources of both tracks
C21_Witness ==
  /\ lastOp = "seek" /\ isPlaying /\ hasStems /\ now > 0
  /\ \A k \in Keys : /\ Live(k) /\ liveSources[k] = 1
                     /\ Val(sources[k]).startedAt = now

\* C22: at most one polling callback is pending at any time.
C22_OnePollingCycle == (IF refPending THEN 1 ELSE 0) + orphans <= 1

\* C23: a seek leaves the playing flag as it was, for every target in
\* [0, duration]; when playing, every loaded track has a live source
\* started by the seek.
C23_SeekKeepsState ==
  [][Seek => /\ isPlaying' = isPlaying
             /\ isPlaying => \A k \in buffers :
                               /\ sources'[k] # None
                               /\ ~Val(sources'[k]).stopped
                               /\ Val(sources'[k]).startedAt = now]_vars

\* C24: looping is never off with a loop point stored; turning looping off
\* clears both loop points and turns native looping off on every source of
\* sourcesRef; turning it on again starts with no region.
C24_LoopDisableClears ==
  /\ [](~isLooping => (loopStart = None /\ loopEnd = None))
  /\ [][ToggleLoop =>
          /\ isLooping' = ~isLooping
          /\ loopStart' = None /\ loopEnd' = None
          /\ \A k \in Keys : sources'[k] # None => ~Val(sources'[k]).loop]_vars

\* looping was turned off while the sources were looping on a region
C24_Witness ==
  /\ lastOp = "toggleLoop" /\ ~isLooping /\ isPlaying
  /\ loopStart = None /\ loopEnd = None
  /\ \A k \in buffers : /\ Live(k) /\ ~Val(sources[k]).loop
                        /\ Val(sources[k]).loopEnd > Val(sources[k]).loopStart

\* the keys of urlsToLoad of the current track set
SetKeys == IF hasStems THEN Keys ELSE {"master"}

\* C25: once the load of the current track set has completed, buffersRef,
\* gainsRef and sourcesRef hold entries for the keys of that set only, all
\* of them made for the current AudioContext by the load of that set.
C25_RegistryIsNewSet ==
  loadPc = "done" =>
    /\ buffers = SetKeys
    /\ \A k \in Keys : gains[k] # None <=> k \in SetKeys
    /\ \A k \in buffers : regGen[k] = ctxGen
    /\ \A k \in Keys : sources[k] # None
                         => (k \in SetKeys /\ Val(sources[k]).ctx = ctxGen)

\* C26: an initAudio run of an earlier track set that is still in flight
\* writes no buffer and no gain node, changes neither duration nor the
\* loading flag.
C26_TeardownAbortsLoads ==
  [][(StaleLoadStep \/ StaleLoadFail)
       => UNCHANGED <<buffers, regGen, gains, duration, isLoading>>]_vars

\* C27: once the load has completed, the gain of every loaded track is 0
\* when its mute flag is set and 1 otherwise, and the output gain equals
\* the volume setting; right after the load of a set with stems the master
\* track's gain is 0.
C27_GainFollowsFlags ==
  loadPc = "done" =>
    /\ gains["master"] = GainOf(isMasterMuted)
    /\ \A k \in StemKeys : k \in buffers => gains[k] = GainOf(stemMutes[k])
    /\ masterGain = volume
    /\ (hasStems /\ lastOp = "loadStep") => gains["master"] = Some(0)

\* C28: a step that is not a user command leaves pauseTime and the
\* displayed current time of a transport that is not playing as they are.
C28_PauseTimeFrame ==
  [][((TickRef \/ TickOrphan \/ Advance) /\ ~isPlaying)
       => (pauseTime' = pauseTime /\ currentTime' = currentTime)]_vars

\* C29: isPlaying holds exactly when every loaded track has a live source
\* and a polling callback is pending.
C29_PlayingFlagAgrees ==
  isPlaying <=> /\ \A k \in buffers : Live(k)
                /\ refPending \/ orphans > 0

\* C30: every song time handed to onTimeUpdate lies in [0, duration].
C30_ReportedTimeInRange ==
  \A i \in 1..Len(emitted) : emitted[i] >= 0 /\ emitted[i] <= duration
====
